---- MODULE Spec2Model ----
(***************************************************************************)
(* GeminiParser.parse (event_generation/nlp_parsers/gemini_parser.py) as a *)
(* state machine: the request phase (lines 31-188), the extraction and     *)
(* sanitising of the response text (198-216), json.loads (220-228), the    *)
(* loop over event_data["events"] (229-259) and the two return paths       *)
(* (261-277).                                                              *)
(*                                                                         *)
(* Strings of the model text are sequences of tokens:                      *)
(*   "O"  the opening marker ```json      "F"  the bare marker ```         *)
(*   "W"  JSON whitespace (space, newline)                                 *)
(*   "D"  the text of one JSON document   "X"  text that is not JSON       *)
(* Optional values (Python None / a missing key read with dict.get) are    *)
(* NONE == << >>, a present value v is Some(v) == <<v>>.                   *)
(***************************************************************************)
EXTENDS Integers, Sequences, FiniteSets, TLC

VARIABLES pc, current_time_zone, response, raw_text, loads_called,
          event_data, idx, event_list, result, processed, failed_at

vars == <<pc, current_time_zone, response, raw_text, loads_called,
          event_data, idx, event_list, result, processed, failed_at>>

(* ------------------------------ bounds --------------------------------- *)

\* Largest number of candidate events in one payload.
MaxEvents == 2

\* Largest run of whitespace tokens at each of the four padding places of
\* a response text.
MaxPad == 1

(* --------------------------- optional values --------------------------- *)

NONE == << >>

Some(v) == <<v>>

\* Python truthiness of an optional string: None and "" are falsy.
Truthy(x) == x # NONE /\ x[1] # ""

(* ------------------------------ exceptions ----------------------------- *)

Exc(type, detail) == [type |-> type, detail |-> detail]

\* Direct base class of each exception type that can arise in parse().
\* json.JSONDecodeError and pydantic's ValidationError derive from
\* ValueError; ConnectionError and FileNotFoundError from OSError.
BaseOf ==
  [t \in {"ConnectionError", "FileNotFoundError", "OSError", "JSONDecodeError",
          "ValidationError", "ValueError", "UnboundLocalError", "KeyError",
          "TypeError", "IndexError", "AttributeError", "ServerError",
          "Exception"} |->
     CASE t \in {"ConnectionError", "FileNotFoundError"} -> "OSError"
       [] t \in {"JSONDecodeError", "ValidationError"} -> "ValueError"
       [] t = "Exception" -> "BaseException"
       [] OTHER -> "Exception"]

RECURSIVE IsSubclass(_, _)
IsSubclass(t, cls) ==
  IF t = cls THEN TRUE
  ELSE IF t \in DOMAIN BaseOf THEN IsSubclass(BaseOf[t], cls)
  ELSE FALSE

IsInstance(exc, cls) == IsSubclass(exc.type, cls)

(* ------------------------------- outcomes ------------------------------ *)

NoResult == [kind |-> "none", prefix |-> "", detail |-> "", events |-> << >>]

Message(prefix, detail) ==
  [kind |-> "message", prefix |-> prefix, detail |-> detail, events |-> << >>]

Events(list) ==
  [kind |-> "events", prefix |-> "", detail |-> "", events |-> list]

\* An exception no except clause matches leaves parse() as an exception.
Unhandled(exc) ==
  [kind |-> "exception", prefix |-> exc.type, detail |-> exc.detail,
   events |-> << >>]

ConnectionMsg ==
  "A connection error occurred while communicating with Gemini API. Please check your internet connection."

InvalidInputMsg ==
  "An error occurred due to an invalid input or response from Gemini API."

UnexpectedPrefix1 == "An unexpected error occurred: "

InvalidEventDataPrefix == "Invalid event data: "

ValidationFailedPrefix == "Event data validation failed: "

GenericUnexpectedMsg == "An unexpected error occurred. Please check the logs."

NoDataText == "No event data extracted from the text"

MissingFieldsText == "Missing required fields: 'title' and/or 'start_time'"

\* The except clauses of the request phase, in source order.
Phase1Handler(exc) ==
  IF IsInstance(exc, "ConnectionError") THEN Message(ConnectionMsg, "")
  ELSE IF IsInstance(exc, "ValueError") THEN Message(InvalidInputMsg, "")
  ELSE IF IsInstance(exc, "Exception")
    THEN Message(UnexpectedPrefix1, exc.detail)
  ELSE Unhandled(exc)

\* Phase2Handler without its last clause: only the two classified clauses.
Phase2Handler_NoCatchAll(exc) ==
  IF IsInstance(exc, "ValueError")
    THEN Message(InvalidEventDataPrefix, exc.detail)
  ELSE IF IsInstance(exc, "ValidationError")
    THEN Message(ValidationFailedPrefix, exc.detail)
  ELSE Unhandled(exc)

\* The except clauses of the parsing phase, in source order.
Phase2Handler(exc) ==
  IF IsInstance(exc, "ValueError")
    THEN Message(InvalidEventDataPrefix, exc.detail)
  ELSE IF IsInstance(exc, "ValidationError")
    THEN Message(ValidationFailedPrefix, exc.detail)
  ELSE IF IsInstance(exc, "Exception") THEN Message(GenericUnexpectedMsg, "")
  ELSE Unhandled(exc)

\* Where a handler's value leaves the run: a returned message, or an
\* exception travelling on to the caller.
PcAfter(h) == IF h.kind = "message" THEN "Failed" ELSE "Raised"

(* ---------------------------- request inputs --------------------------- *)

LocalTimes == {"2025-02-20T17:00:00Z", "20 Feb 2025 5pm"}

\* datetime.strptime(local_time, "%Y-%m-%dT%H:%M:%SZ") succeeds.
StrptimeOk(local_time) == local_time = "2025-02-20T17:00:00Z"

TimeZones == {"", "America/Los_Angeles"}

ImagePaths == {NONE, Some("flyer.jpg")}

ExcDetails == {"503 UNAVAILABLE", "api_key=SECRET rejected"}

(* ----------------------------- model texts ----------------------------- *)

Pad(n) == [i \in 1..n |-> "W"]

Openers == {<< >>, <<"O">>, <<"F">>}

Closers == {<< >>, <<"F">>}

Bodies == {<< >>, <<"D">>, <<"X">>}

Texts ==
  {Pad(a) \o o \o Pad(b) \o body \o Pad(c) \o cl \o Pad(d) :
     a \in 0..MaxPad, b \in 0..MaxPad, c \in 0..MaxPad, d \in 0..MaxPad,
     o \in Openers, body \in Bodies, cl \in Closers}

NoResponse == [candidates |-> 0, text |-> NONE, live |-> FALSE]

Responses ==
  {[candidates |-> 0, text |-> NONE, live |-> TRUE],
   [candidates |-> 1, text |-> NONE, live |-> TRUE]}
  \cup {[candidates |-> 1, text |-> Some(t), live |-> TRUE] : t \in Texts}

\* What the request phase can end in: an exception of the client (or of
\* open() when an image path is given), or a response object.
ApiOutcomes(image_path) ==
  {[raised |-> TRUE, exc |-> Exc("ConnectionError", "connection reset"),
    response |-> NoResponse],
   [raised |-> TRUE, exc |-> Exc("ValueError", "invalid argument"),
    response |-> NoResponse]}
  \cup {[raised |-> TRUE, exc |-> Exc("ServerError", d),
         response |-> NoResponse] : d \in ExcDetails}
  \cup (IF image_path # NONE
          THEN {[raised |-> TRUE,
                 exc |-> Exc("FileNotFoundError", image_path[1]),
                 response |-> NoResponse]}
          ELSE {})
  \cup {[raised |-> FALSE, exc |-> Exc("Exception", ""), response |-> r] :
          r \in Responses}

(* ------------------------------ sanitizer ------------------------------ *)

RECURSIVE LStrip(_)
LStrip(s) ==
  IF s # << >> /\ Head(s) = "W" THEN LStrip(Tail(s)) ELSE s

RECURSIVE RStrip(_)
RStrip(s) ==
  IF s # << >> /\ s[Len(s)] = "W" THEN RStrip(SubSeq(s, 1, Len(s) - 1)) ELSE s

\* str.strip()
Strip(s) == RStrip(LStrip(s))

\* raw_text.startswith("```json")
StartsWithJsonFence(s) == s # << >> /\ Head(s) = "O"

\* raw_text.endswith("```")
EndsWithFence(s) == s # << >> /\ s[Len(s)] = "F"

\* Lines 206-213 with the two .strip() calls left out.
Sanitize_NoStrip(s) ==
  LET a == IF StartsWithJsonFence(s) THEN Tail(s) ELSE s
  IN  IF EndsWithFence(a) THEN SubSeq(a, 1, Len(a) - 1) ELSE a

\* Lines 206-213: each marker is removed, and the rest trimmed, only when
\* that marker is found.
Sanitize(s) ==
  LET a == IF StartsWithJsonFence(s) THEN Strip(Tail(s)) ELSE s
  IN  IF EndsWithFence(a) THEN Strip(SubSeq(a, 1, Len(a) - 1)) ELSE a

\* json.loads accepts one document with JSON whitespace around it.
ValidJson(s) == Strip(s) = <<"D">>

(* -------------------------- candidate events --------------------------- *)

BaseCandidate ==
  [is_object |-> TRUE, title |-> Some("A"),
   start_time |-> Some("20250220T100000"),
   end_time |-> Some("20250220T110000"), time_zone |-> NONE,
   is_recurring |-> FALSE, recurrence_count |-> NONE,
   recurrence_end_date |-> NONE]

\* The candidate events a payload is drawn from: the base candidate, and
\* the base candidate with the required fields, the start and end time, the
\* time zone and the recurrence fields varied in turn; one entry is no JSON
\* object (is_object FALSE).
Candidates ==
  {BaseCandidate, [BaseCandidate EXCEPT !.title = NONE, !.start_time = NONE]}
  \cup {[BaseCandidate EXCEPT !.title = t] : t \in {NONE, Some("")}}
  \cup {[BaseCandidate EXCEPT !.start_time = s] : s \in {NONE, Some("")}}
  \cup {[BaseCandidate EXCEPT !.title = Some("B")],
        [BaseCandidate EXCEPT !.start_time = Some("next tuesday")]}
  \cup {[BaseCandidate EXCEPT !.end_time = NONE],
        [BaseCandidate EXCEPT !.start_time = Some("20250220T233000"),
                              !.end_time = NONE],
        [BaseCandidate EXCEPT !.end_time = Some("20250220T090000")]}
  \cup {[BaseCandidate EXCEPT !.time_zone = z] :
          z \in {Some(""), Some("Europe/Paris")}}
  \cup {[BaseCandidate EXCEPT !.is_recurring = TRUE, !.recurrence_count = c,
                              !.recurrence_end_date = u] :
          c \in {NONE, Some(5)}, u \in {NONE, Some("20250301")}}
  \cup {[BaseCandidate EXCEPT !.is_object = FALSE]}

RECURSIVE SeqsUpTo(_, _)
SeqsUpTo(S, n) ==
  IF n = 0 THEN {<< >>}
  ELSE LET shorter == SeqsUpTo(S, n - 1)
       IN  shorter \cup {Append(q, x) : q \in shorter, x \in S}

\* What json.loads can return for a "D" text: an object with an "events"
\* list, an object without the key, or a value that is no object.
Documents ==
  {[shape |-> "events_list", events |-> l] : l \in SeqsUpTo(Candidates, MaxEvents)}
  \cup {[shape |-> "no_events_key", events |-> << >>],
        [shape |-> "not_object", events |-> << >>]}

NoDocument == [shape |-> "unbound", events |-> << >>]

(* ------------------- collaborators outside this file ------------------- *)

\* event.date_parser.parse_datetime, by its interface: the date/time
\* strings it resolves, as minutes counted from the start of 2025-02-19.
DateTable ==
  ("20250220T090000" :> 1980) @@ ("20250220T100000" :> 2040) @@
  ("20250220T110000" :> 2100) @@ ("20250220T233000" :> 2850) @@
  ("20250301" :> 14400)

\* parse_datetime fails with a parse error on anything that is not one of
\* the date/time strings it resolves (None included).
ParseDatetimeRaises(x) == x = NONE \/ x[1] \notin DOMAIN DateTable

parse_datetime(x) == Some(DateTable[x[1]])

UnparsableText == "Unparsable date/time"

\* event.event.Event, by its interface: the entity holds the fields it is
\* constructed with, and construction is refused when end precedes start.
EventRejects(kw) == kw.end_time[1] < kw.start_time[1]

Event(kw) == kw

InvertedText == "end_time must not precede start_time"

(* -------------------- one candidate event (230-259) -------------------- *)

\* Line 232 with only the title tested.
RequiredFieldsPresent_TitleOnly(ev) == Truthy(ev.title)

\* Line 232: not event.get("title") or not event.get("start_time") raises.
RequiredFieldsPresent(ev) == Truthy(ev.title) /\ Truthy(ev.start_time)

\* Lines 240-244 with the fallback left out.
TimeZoneOf_NoFallback(ev, local_tz) ==
  IF ev.time_zone = NONE THEN "" ELSE ev.time_zone[1]

\* Lines 240-244: str(current_time_zone) if not event.get("time_zone").
TimeZoneOf(ev, local_tz) ==
  IF ~Truthy(ev.time_zone) THEN local_tz ELSE ev.time_zone[1]

\* Lines 253-257: the end date is resolved only when it is truthy.
RecurrenceEndDateOf(ev) ==
  IF Truthy(ev.recurrence_end_date)
    THEN parse_datetime(ev.recurrence_end_date)
    ELSE NONE

\* Lines 234-258: the keyword arguments of Event(...). The fields the
\* parser copies with event.get and nothing else (is_all_day, description,
\* location, attendees, recurrence_pattern, recurrence_days) are left out.
EventKwargs(ev, local_tz) ==
  [title |-> ev.title[1],
   start_time |-> parse_datetime(ev.start_time),
   time_zone |-> TimeZoneOf(ev, local_tz),
   end_time |-> parse_datetime(ev.end_time),
   is_recurring |-> ev.is_recurring,
   recurrence_count |-> ev.recurrence_count,
   recurrence_end_date |-> RecurrenceEndDateOf(ev)]

NoException == Exc("Exception", "")

\* Lines 230-258 for one candidate: the first exception raised, in the
\* order the source evaluates, or none.
CandidateException(ev, local_tz) ==
  IF ~ev.is_object
    THEN Exc("AttributeError", "object has no attribute 'get'")
  ELSE IF ~RequiredFieldsPresent(ev) THEN Exc("ValueError", MissingFieldsText)
  ELSE IF ParseDatetimeRaises(ev.start_time)
    THEN Exc("ValueError", UnparsableText)
  ELSE IF ParseDatetimeRaises(ev.end_time)
    THEN Exc("ValueError", UnparsableText)
  ELSE IF Truthy(ev.recurrence_end_date)
          /\ ParseDatetimeRaises(ev.recurrence_end_date)
    THEN Exc("ValueError", UnparsableText)
  ELSE IF EventRejects(EventKwargs(ev, local_tz))
    THEN Exc("ValidationError", InvertedText)
  ELSE NoException

\* Line 259 with the new event put in front.
AppendEvent_Prepend(list, e) == <<e>> \o list

\* Line 259: event_list.append(new_event)
AppendEvent(list, e) == Append(list, e)

(* ------------------------------- actions ------------------------------- *)

Init ==
  /\ pc = "Start"
  /\ current_time_zone = NONE
  /\ response = NoResponse
  /\ raw_text = << >>
  /\ loads_called = FALSE
  /\ event_data = NoDocument
  /\ idx = 0
  /\ event_list = << >>
  /\ result = NoResult
  /\ processed = {}
  /\ failed_at = NONE

\* An exception raised inside the first try block (lines 31-188).
RaiseInPhase1(exc) ==
  /\ result' = Phase1Handler(exc)
  /\ pc' = PcAfter(Phase1Handler(exc))

\* An exception raised inside the second try block (lines 191-275).
RaiseInPhase2(exc) ==
  /\ result' = Phase2Handler(exc)
  /\ pc' = PcAfter(Phase2Handler(exc))

\* Lines 34-36: the reference time is reformatted, the time zone kept.
BuildPrompt ==
  /\ pc = "Start"
  /\ \E local_time \in LocalTimes, local_tz \in TimeZones :
       IF StrptimeOk(local_time)
         THEN /\ pc' = "Requesting"
              /\ current_time_zone' = Some(local_tz)
              /\ UNCHANGED result
         ELSE /\ RaiseInPhase1(Exc("ValueError", "time data does not match format"))
              /\ UNCHANGED current_time_zone
  /\ UNCHANGED <<response, raw_text, loads_called, event_data, idx,
                 event_list, processed, failed_at>>

\* Lines 140-171: the image is read when a path is given and the request
\* is sent; any of it may raise.
SendRequest ==
  /\ pc = "Requesting"
  /\ \E image_path \in ImagePaths :
       \E o \in ApiOutcomes(image_path) :
         IF o.raised
           THEN /\ RaiseInPhase1(o.exc)
                /\ UNCHANGED response
           ELSE /\ response' = o.response
                /\ pc' = "Extracting"
                /\ UNCHANGED result
  /\ UNCHANGED <<current_time_zone, raw_text, loads_called, event_data, idx,
                 event_list, processed, failed_at>>

\* Lines 198-216: the first candidate's text is taken, tested, sanitised
\* and tested again. The response is not read after line 198.
ExtractText ==
  /\ pc = "Extracting"
  /\ IF response.candidates = 0
       THEN /\ RaiseInPhase2(Exc("IndexError", "list index out of range"))
            /\ UNCHANGED <<raw_text, response>>
     ELSE IF response.text = NONE \/ response.text[1] = << >>
       THEN /\ RaiseInPhase2(Exc("ValueError", NoDataText))
            /\ UNCHANGED <<raw_text, response>>
     ELSE IF Sanitize(response.text[1]) = << >>
       THEN /\ RaiseInPhase2(Exc("ValueError", NoDataText))
            /\ raw_text' = << >>
            /\ UNCHANGED response
     ELSE /\ raw_text' = Sanitize(response.text[1])
          /\ response' = NoResponse
          /\ pc' = "Parsing"
          /\ UNCHANGED result
  /\ UNCHANGED <<current_time_zone, loads_called, event_data, idx,
                 event_list, processed, failed_at>>

\* Lines 220-228: json.loads; its JSONDecodeError is caught and printed
\* (222-224), which leaves event_data unbound, and line 228 then reads it.
\* The text is not read after json.loads.
LoadJson ==
  /\ pc = "Parsing"
  /\ loads_called' = TRUE
  /\ IF ValidJson(raw_text)
       THEN /\ \E d \in Documents : event_data' = d
            /\ raw_text' = << >>
            /\ pc' = "Iterating"
            /\ UNCHANGED result
       ELSE /\ RaiseInPhase2(Exc("UnboundLocalError", "event_data"))
            /\ UNCHANGED <<event_data, raw_text>>
  /\ UNCHANGED <<current_time_zone, response, idx, event_list, processed,
                 failed_at>>

\* Line 229: event_data["events"] is evaluated and the loop entered.
IterEvents ==
  /\ pc = "Iterating"
  /\ IF event_data.shape = "not_object"
       THEN /\ RaiseInPhase2(Exc("TypeError", "indices must be integers"))
            /\ UNCHANGED idx
     ELSE IF event_data.shape = "no_events_key"
       THEN /\ RaiseInPhase2(Exc("KeyError", "'events'"))
            /\ UNCHANGED idx
     ELSE /\ idx' = 1
          /\ pc' = "Normalizing"
          /\ UNCHANGED result
  /\ UNCHANGED <<current_time_zone, response, raw_text, loads_called,
                 event_data, event_list, processed, failed_at>>

\* A failing candidate that is skipped, the loop going on.
FailInLoop_SkipAndContinue(exc) ==
  /\ failed_at' = Some(idx)
  /\ idx' = idx + 1
  /\ UNCHANGED <<pc, result, event_list>>

\* An exception inside the loop body leaves the loop for the handlers of
\* lines 262-275, which return a message.
FailInLoop(exc) ==
  /\ failed_at' = Some(idx)
  /\ RaiseInPhase2(exc)
  /\ UNCHANGED <<idx, event_list>>

\* Lines 230-259 for the candidate at position idx.
NormalizingEvent ==
  /\ pc = "Normalizing"
  /\ idx <= Len(event_data.events)
  /\ processed' = processed \cup {idx}
  /\ LET ev == event_data.events[idx]
         exc == CandidateException(ev, current_time_zone[1])
     IN  IF exc # NoException
           THEN FailInLoop(exc)
           ELSE /\ event_list' =
                     AppendEvent(event_list,
                                 Event(EventKwargs(ev, current_time_zone[1])))
                /\ idx' = idx + 1
                /\ UNCHANGED <<pc, result, failed_at>>
  /\ UNCHANGED <<current_time_zone, response, raw_text, loads_called,
                 event_data>>

\* Line 277: the loop is exhausted and event_list returned.
ReturnEvents ==
  /\ pc = "Normalizing"
  /\ idx > Len(event_data.events)
  /\ pc' = "Done"
  /\ result' = Events(event_list)
  /\ UNCHANGED <<current_time_zone, response, raw_text, loads_called,
                 event_data, idx, event_list, processed, failed_at>>

Next ==
  \/ BuildPrompt
  \/ SendRequest
  \/ ExtractText
  \/ LoadJson
  \/ IterEvents
  \/ NormalizingEvent
  \/ ReturnEvents

Spec == Init /\ [][Next]_vars

\* parse() is one synchronous call: whatever step is next is taken.
FairSpec == Spec /\ WF_vars(Next)

Terminal == {"Done", "Failed", "Raised"}

(* --------------------- the error classes of the run -------------------- *)

JsonDecodeText == "Expecting value"

\* The class a returned message stands for, read off its text.
ErrorClass(r) ==
  CASE r.prefix = ConnectionMsg -> "TransportError"
    [] r.prefix = InvalidInputMsg -> "InvalidInputError"
    [] r.prefix \in {UnexpectedPrefix1, GenericUnexpectedMsg} -> "UnexpectedError"
    [] r.prefix = ValidationFailedPrefix -> "InvertedTimeRangeError"
    [] r.prefix = InvalidEventDataPrefix /\ r.detail = NoDataText
         -> "EmptyExtractionError"
    [] r.prefix = InvalidEventDataPrefix /\ r.detail = MissingFieldsText
         -> "MissingRequiredFieldError"
    [] r.prefix = InvalidEventDataPrefix /\ r.detail = UnparsableText
         -> "UnparsableDateTimeError"
    [] r.prefix = InvalidEventDataPrefix /\ r.detail = InvertedText
         -> "InvertedTimeRangeError"
    [] r.prefix = InvalidEventDataPrefix
       /\ r.detail \in {JsonDecodeText, "'events'"} -> "MalformedPayloadError"
    [] OTHER -> "None"

CandidateList == event_data.events

\* A candidate whose title or start_time is absent, null or empty.
MissingFields(ev) ==
  ev.is_object /\ (~Truthy(ev.title) \/ ~Truthy(ev.start_time))

HasMissing ==
  /\ event_data.shape = "events_list"
  /\ \E k \in 1..Len(CandidateList) : MissingFields(CandidateList[k])

FirstMissing ==
  CHOOSE k \in 1..Len(CandidateList) :
    /\ MissingFields(CandidateList[k])
    /\ \A j \in 1..(k - 1) : ~MissingFields(CandidateList[j])

(* ---------------------------------- C1 --------------------------------- *)

\* C1, as stated: a run over a payload holding a candidate without title
\* or start_time ends with the MissingRequiredFieldError message and
\* returns no Event, wherever that candidate stands in the list.
C1_MissingFieldAlways ==
  (pc \in Terminal /\ HasMissing) =>
    /\ pc = "Failed"
    /\ result.kind = "message"
    /\ result.events = << >>
    /\ ErrorClass(result) = "MissingRequiredFieldError"

\* C1, amended: a run over a payload holding a candidate without title or
\* start_time never returns Events; it ends with a message, and the message
\* is the MissingRequiredFieldError one whenever every candidate before the
\* first such candidate was built into an Event.
C1_MissingFieldFirstFailure ==
  (pc \in Terminal /\ HasMissing) =>
    /\ pc = "Failed"
    /\ result.kind = "message"
    /\ result.events = << >>
    /\ (Len(event_list) = FirstMissing - 1 =>
          /\ failed_at = Some(FirstMissing)
          /\ ErrorClass(result) = "MissingRequiredFieldError")

\* A valid candidate was built, the second one lacks a required field and
\* the run ended with the MissingRequiredFieldError message.
C1_Witness ==
  /\ pc = "Failed"
  /\ HasMissing
  /\ FirstMissing = 2
  /\ Len(event_list) = 1
  /\ failed_at = Some(2)
  /\ ErrorClass(result) = "MissingRequiredFieldError"

(* ---------------------------------- C2 --------------------------------- *)

\* C2: the step taken on a sanitized text that is not valid JSON, or on a
\* document without the "events" key, ends the run with the
\* MalformedPayloadError message, no candidate processed and no Events.
C2_MalformedPayload ==
  [][((pc = "Parsing" /\ ~ValidJson(raw_text))
      \/ (pc = "Iterating" /\ event_data.shape = "no_events_key"))
     => (/\ pc' = "Failed"
         /\ result'.kind = "message"
         /\ ErrorClass(result') = "MalformedPayloadError"
         /\ processed' = {}
         /\ result'.events = << >>)]_vars

(* ---------------------------------- C3 --------------------------------- *)

\* The sanitizer as the claim words it: a leading fence marker, a trailing
\* fence marker and the surrounding whitespace are removed.
SpecSanitize(t) ==
  LET a == Strip(t)
      b == IF a # << >> /\ Head(a) \in {"O", "F"} THEN Strip(Tail(a)) ELSE a
  IN  IF b # << >> /\ b[Len(b)] = "F"
        THEN Strip(SubSeq(b, 1, Len(b) - 1))
        ELSE b

\* C3, as stated: a response text of which nothing is left once fence
\* markers and surrounding whitespace are removed ends the run with the
\* EmptyExtractionError message, json.loads never being called.
C3_EmptyExtraction ==
  [][(/\ pc = "Extracting"
      /\ response.candidates = 1
      /\ response.text # NONE
      /\ SpecSanitize(response.text[1]) = << >>)
     => (/\ pc' = "Failed"
         /\ ErrorClass(result') = "EmptyExtractionError"
         /\ ~loads_called')]_vars

\* What is left of a text when a leading ```json marker is removed and the
\* rest trimmed, then a trailing ``` marker is removed and the rest trimmed;
\* a text carrying neither marker is left as it is.
FenceTrimmed(t) ==
  LET a == IF t # << >> /\ t[1] = "O" THEN Strip(SubSeq(t, 2, Len(t))) ELSE t
  IN  IF a # << >> /\ a[Len(a)] = "F"
        THEN Strip(SubSeq(a, 1, Len(a) - 1))
        ELSE a

\* C3, amended: a response text that is empty, or of which nothing is left
\* once a leading ```json marker and a trailing ``` marker are removed (the
\* whitespace being trimmed only where a marker is removed), ends the run
\* with the EmptyExtractionError message, json.loads never being called.
C3_EmptyAfterFenceRemoval ==
  [][(/\ pc = "Extracting"
      /\ response.candidates = 1
      /\ response.text # NONE
      /\ FenceTrimmed(response.text[1]) = << >>)
     => (/\ pc' = "Failed"
         /\ result'.kind = "message"
         /\ ErrorClass(result') = "EmptyExtractionError"
         /\ ~loads_called')]_vars

\* A text made of the two markers with whitespace between them ended the
\* run with the EmptyExtractionError message before json.loads.
C3_Witness ==
  /\ pc = "Failed"
  /\ response.text = Some(<<"O", "W", "F">>)
  /\ ErrorClass(result) = "EmptyExtractionError"
  /\ ~loads_called

(* ---------------------------------- C4 --------------------------------- *)

\* C4: once the candidate at position i has failed, the run is in the
\* terminal Failed state with a message, no candidate after i has been
\* processed, and the Events built from the candidates before i are not
\* returned.
C4_FailFast ==
  failed_at # NONE =>
    /\ pc = "Failed"
    /\ result.kind = "message"
    /\ result.events = << >>
    /\ processed = 1..failed_at[1]
    /\ idx = failed_at[1]
    /\ ~ENABLED Next

\* The first of two candidates failed; the second was never processed.
C4_Witness ==
  /\ pc = "Failed"
  /\ failed_at = Some(1)
  /\ Len(CandidateList) = 2
  /\ processed = {1}

(* ---------------------------------- C5 --------------------------------- *)

\* C5: a run that reaches Done returns one Event per candidate, the k-th
\* Event being the one built from the k-th candidate of the payload.
C5_OrderPreserved ==
  pc = "Done" =>
    /\ result.kind = "events"
    /\ Len(result.events) = Len(CandidateList)
    /\ \A k \in 1..Len(CandidateList) :
         result.events[k] =
           Event(EventKwargs(CandidateList[k], current_time_zone[1]))

\* Two different candidates were returned as two different Events.
C5_Witness ==
  /\ pc = "Done"
  /\ Len(result.events) = 2
  /\ result.events[1] # result.events[2]

(* ---------------------------------- C6 --------------------------------- *)

\* C6: every run ends, and stays, in one of two outcomes: Done with a
\* sequence of Events, or Failed with one message and no Events; no
\* exception leaves parse().
C6_SingleOutcome ==
  <>[](\/ (pc = "Done" /\ result.kind = "events")
       \/ (pc = "Failed" /\ result.kind = "message" /\ result.events = << >>))

\* The request itself raised and the run ended with a message.
C6_Witness ==
  /\ pc = "Failed"
  /\ current_time_zone # NONE
  /\ ~loads_called
  /\ result.kind = "message"
  /\ result.prefix = ConnectionMsg

(* ---------------------------------- C7 --------------------------------- *)

\* C7: an Event built from a candidate with no (or an empty) time_zone
\* carries the ambient time zone, one built from a candidate with a
\* time_zone keeps it, and no Event has an empty time_zone when the
\* ambient one is not empty.
C7_TimeZoneDefault ==
  \A k \in 1..Len(event_list) :
    LET ev == CandidateList[k]
        e == event_list[k]
    IN  /\ (ev.time_zone = NONE \/ ev.time_zone = Some(""))
             => e.time_zone = current_time_zone[1]
        /\ (ev.time_zone # NONE /\ ev.time_zone # Some(""))
             => e.time_zone = ev.time_zone[1]
        /\ current_time_zone[1] # "" => e.time_zone # ""

\* An Event built from a candidate with an empty time_zone carries the
\* ambient one.
C7_Witness ==
  \E k \in 1..Len(event_list) :
    /\ CandidateList[k].time_zone = Some("")
    /\ event_list[k].time_zone = "America/Los_Angeles"

(* ---------------------------------- C8 --------------------------------- *)

\* start + 1 hour, or 23:59 of the start day when that crosses midnight.
DefaultEnd(s) ==
  IF (s + 60) \div 1440 # s \div 1440 THEN (s \div 1440) * 1440 + 1439
  ELSE s + 60

\* C8: a candidate with a valid title and start_time and no end_time does
\* not fail the run, and its Event ends at start_time + 1 hour (23:59 of
\* the start day when that would cross midnight).
C8_EndTimeDefault ==
  \A k \in processed :
    LET ev == CandidateList[k]
    IN  (/\ ev.is_object
         /\ Truthy(ev.title)
         /\ Truthy(ev.start_time)
         /\ ev.start_time[1] \in DOMAIN DateTable
         /\ ev.end_time = NONE)
        => /\ failed_at # Some(k)
           /\ k <= Len(event_list) =>
                event_list[k].end_time =
                  Some(DefaultEnd(DateTable[ev.start_time[1]]))

(* ---------------------------------- C9 --------------------------------- *)

\* C9: the Event built from a recurring candidate that has both a
\* recurrence_count and a recurrence_end_date keeps the end date and
\* carries no count.
C9_EndDateWins ==
  \A k \in 1..Len(event_list) :
    LET ev == CandidateList[k]
    IN  (/\ ev.is_recurring
         /\ ev.recurrence_count # NONE
         /\ ev.recurrence_end_date # NONE)
        => /\ event_list[k].recurrence_end_date # NONE
           /\ event_list[k].recurrence_count = NONE

(* --------------------------------- C10 --------------------------------- *)

\* C10: whenever a run ends with the UnexpectedError message, in either
\* phase, the message is the one fixed text and carries nothing of the
\* exception.
C10_GenericMessage ==
  (pc = "Failed" /\ ErrorClass(result) = "UnexpectedError") =>
    /\ result.prefix = GenericUnexpectedMsg
    /\ result.detail = ""

====
